---- MODULE Spec2Model ----
(***************************************************************************)
(* House price predictor: the ensemble model (backend/src/model_training), *)
(* the explainer and market comparator (backend/src/explainer) and the     *)
(* model bootstrap of backend/app.py.                                      *)
(*                                                                         *)
(* Floating point numbers are modelled as exact rationals <<num, den>>     *)
(* with den > 0 in lowest terms.  r2 scores are counted in tenths.         *)
(* A Python dict is a function, None is the empty sequence <<>> and a      *)
(* present optional value v is <<v>>.                                      *)
(***************************************************************************)
EXTENDS Integers, Sequences, FiniteSets, TLC

VARIABLES model, explainer, X_train, y_train, blob, call, ret, saved, crime_cache

vars == <<model, explainer, X_train, y_train, blob, call, ret, saved, crime_cache>>

(***************************************************************************)
(* Bounds                                                                  *)
(***************************************************************************)
\* largest value of an input field
MaxVal == 1
\* largest similar price handed to compare_to_market
MaxPrice == 3
\* longest list of similar prices handed to compare_to_market
MaxPrices == 2
\* largest predicted price handed to compare_to_market
MaxPredicted == 2
\* largest magnitude of the fitted parameter of a learner that is queried
MaxTheta == 2
\* largest number of features of an explained frame
MaxFactors == 6

\* what a fit can produce: the fitted parameter, which determines the
\* learner's predictions, and its held-out r2 score in tenths
Fits == {<<3, -7>>, <<1, 9>>, <<3, 7>>, <<1, 0>>}
\* the numeric columns of the data and a field that is no feature
Features == {"area", "bedrooms"}
Extras == {"city"}

(***************************************************************************)
(* Rational arithmetic (the floats of the program)                         *)
(***************************************************************************)
Abs(n) == IF n < 0 THEN -n ELSE n

RECURSIVE GCD(_, _)
GCD(a, b) == IF b = 0 THEN a ELSE GCD(b, a % b)

Rat(n, d) ==
    LET g == GCD(Abs(n), Abs(d))
        s == IF d < 0 THEN -1 ELSE 1
    IN  <<(s * n) \div g, (s * d) \div g>>

RInt(n) == <<n, 1>>
RAdd(a, b) == Rat(a[1] * b[2] + b[1] * a[2], a[2] * b[2])
RSub(a, b) == Rat(a[1] * b[2] - b[1] * a[2], a[2] * b[2])
RMul(a, b) == Rat(a[1] * b[1], a[2] * b[2])
RDiv(a, b) == Rat(a[1] * b[2], a[2] * b[1])
RLt(a, b) == a[1] * b[2] < b[1] * a[2]
RLe(a, b) == a[1] * b[2] <= b[1] * a[2]
RMax(a, b) == IF RLt(a, b) THEN b ELSE a

RECURSIVE SeqSum(_)
SeqSum(s) == IF s = <<>> THEN 0 ELSE Head(s) + SeqSum(Tail(s))

RECURSIVE RSeqSum(_)
RSeqSum(s) == IF s = <<>> THEN RInt(0) ELSE RAdd(Head(s), RSeqSum(Tail(s)))

\* floor of the square root of a natural number, by bisection
RECURSIVE ISqrtIn(_, _, _)
ISqrtIn(v, lo, hi) ==
    IF lo >= hi THEN lo
    ELSE LET mid == (lo + hi + 1) \div 2
         IN  IF mid * mid <= v THEN ISqrtIn(v, mid, hi) ELSE ISqrtIn(v, lo, mid - 1)

ISqrt(v) == ISqrtIn(v, 0, IF v < 46340 THEN v ELSE 46340)

\* np.mean of a non-empty list of integers
Mean(s) == Rat(SeqSum(s), Len(s))

\* the scale square roots are taken to
SqrtScale == 100

\* the sample standard deviation (ddof=1) of a list of two or more integers
StdSample(s) ==
    LET n == Len(s)
        sq == [i \in 1..n |-> s[i] * s[i]]
        v == n * SeqSum(sq) - SeqSum(s) * SeqSum(s)
    IN  Rat(ISqrt(SqrtScale * SqrtScale * v * n * (n - 1)), SqrtScale * n * (n - 1))

\* np.std (population standard deviation) of a non-empty list of integers:
\* sqrt(n * sum(x^2) - sum(x)^2) / n, the root taken to 1/SqrtScale
Std(s) ==
    LET n == Len(s)
        sq == [i \in 1..n |-> s[i] * s[i]]
        v == n * SeqSum(sq) - SeqSum(s) * SeqSum(s)
    IN  Rat(ISqrt(SqrtScale * SqrtScale * v), SqrtScale * n)

(***************************************************************************)
(* Results of a call                                                       *)
(***************************************************************************)
Raise(e) == [kind |-> "raise", error |-> e]
Return(v) == [kind |-> "return", value |-> v]

EmptyDict == [n \in {} |-> 0]

(***************************************************************************)
(* HousePriceModel                                                         *)
(***************************************************************************)
\* dict order of _create_base_models
LearnerOrder == <<"xgboost", "lightgbm">>
LearnerNames == {LearnerOrder[i] : i \in 1..Len(LearnerOrder)}

\* a regressor: unfitted, or fitted on frames with the columns `features`
\* with the parameter theta that determines its predictions
Unfitted == [fitted |-> FALSE, theta |-> 0, features |-> <<>>]
Fitted(t, cols) == [fitted |-> TRUE, theta |-> t, features |-> cols]

\* HousePriceModel.__init__
NewModel ==
    [models |-> EmptyDict,
     weights |-> EmptyDict,
     feature_names |-> <<>>,
     metrics |-> <<>>,
     is_trained |-> FALSE]

\* _create_base_models: one unfitted regressor per name
CreateBaseModels == [n \in LearnerNames |-> Unfitted]

\* the names of a dict in iteration order
DictOrder(d) == SelectSeq(LearnerOrder, LAMBDA n : n \in DOMAIN d)

\* a fitted learner's prediction for a row given in schema order
LearnerPredict(l, row) ==
    l.theta + SeqSum([i \in 1..Len(row) |-> i * row[i]])

(***************************************************************************)
(* Training data: a frame is its ordered columns and its rows, each row    *)
(* in column order; the targets are a parallel list of prices.             *)
(***************************************************************************)
DataA == [columns |-> <<"area", "bedrooms">>,
          rows |-> << <<0, 1>>, <<1, 1>>, <<1, 0>> >>]
DataB == [columns |-> <<"bedrooms", "area">>,
          rows |-> << <<1, 0>>, <<1, 1>>, <<0, 1>> >>]
PricesA == <<1, 3, 2>>
TrainSets == {DataA, DataB}

\* train_test_split(test_size, random_state=42): a fixed partition; the
\* held-out rows are the last ceil(n * test_size) ones, test_size = 1/5
TestCount(n) == (n + 4) \div 5
TestIdx(X) == {i \in 1..Len(X.rows) : i > Len(X.rows) - TestCount(Len(X.rows))}

\* the outcome of one model.fit and its evaluation: a failure, or a fitted
\* parameter with its held-out r2 (tenths)
FitOutcomes ==
    {[ok |-> FALSE, theta |-> 0, r2 |-> 0]}
    \cup {[ok |-> TRUE, theta |-> f[1], r2 |-> f[2]] : f \in Fits}

\* index in LearnerOrder of the first learner whose fit fails, 0 if none
FirstFailure(out) ==
    IF \A i \in 1..Len(LearnerOrder) : out[LearnerOrder[i]].ok
    THEN 0
    ELSE CHOOSE i \in 1..Len(LearnerOrder) :
            /\ ~out[LearnerOrder[i]].ok
            /\ \A j \in 1..(i - 1) : out[LearnerOrder[j]].ok

\* position of a name in LearnerOrder
Pos(n) == CHOOSE i \in 1..Len(LearnerOrder) : LearnerOrder[i] = n

\* self.weights = {name: r2 / total_r2 ...}
BlendWeights(r2, total) == [n \in DOMAIN r2 |-> Rat(r2[n], total)]

\* y_pred_ensemble += self.weights[name] * model.predict(X_test), then the
\* mean absolute error of _calculate_metrics
EnsemblePred(models, weights, row) ==
    RSeqSum([i \in 1..Len(LearnerOrder) |->
        RMul(weights[LearnerOrder[i]],
             RInt(LearnerPredict(models[LearnerOrder[i]], row)))])

RAbs(a) == <<Abs(a[1]), a[2]>>

EnsembleMae(models, weights, X, y) ==
    LET idx == TestIdx(X)
        first == Len(X.rows) - Cardinality(idx) + 1
        errs == [k \in 1..Cardinality(idx) |->
                    RAbs(RSub(RInt(y[first + k - 1]),
                              EnsemblePred(models, weights, X.rows[first + k - 1])))]
    IN  RDiv(RSeqSum(errs), RInt(Cardinality(idx)))

\* HousePriceModel.train: the model and the result after the call.  The
\* training timestamp of the metrics is left out.
TrainStep(m, X, y, out) ==
    LET ff == FirstFailure(out)
        m1 == [m EXCEPT !.feature_names = <<X.columns>>]
        fit == [n \in LearnerNames |->
                    IF ff = 0 \/ Pos(n) < ff THEN Fitted(out[n].theta, X.columns)
                    ELSE Unfitted]
        m2 == [m1 EXCEPT !.models = fit]
        r2 == [n \in LearnerNames |-> out[n].r2]
        total == SeqSum([i \in 1..Len(LearnerOrder) |-> r2[LearnerOrder[i]]])
        w == BlendWeights(r2, total)
        mt == [individual_models |-> r2,
               ensemble_mae |-> EnsembleMae(fit, w, X, y),
               n_samples |-> Len(X.rows),
               n_features |-> Len(X.columns),
               weights |-> w]
    IN  IF ff # 0 THEN [model |-> m2, ret |-> Raise("FitError")]
        ELSE IF total = 0 THEN [model |-> m2, ret |-> Raise("ZeroDivisionError")]
        ELSE [model |-> [m2 EXCEPT !.weights = w,
                                   !.metrics = <<mt>>,
                                   !.is_trained = TRUE],
              ret |-> Return(<<mt>>)]

(***************************************************************************)
(* Serving path of HousePriceModel                                         *)
(***************************************************************************)
\* a one-row input frame: a value for each column it carries
Inputs ==
    UNION {{x \in [c -> 0..MaxVal] : \A e \in c \cap Extras : x[e] = 0} :
              c \in SUBSET (Features \cup Extras)}

\* the float nan, which np.mean and np.std give for an empty list
NaN == <<0, 0>>

\* the 1.96 of the 95% interval
Z95 == Rat(196, 100)
\* a confidence of 1 where the code returns 0.8
FullConfidence == RInt(1)
\* the confidence returned when the mean prediction is not positive
FallbackConfidence == Rat(8, 10)

\* HousePriceModel.predict after its check of is_trained
PredictTrained(m, x) ==
    IF m.feature_names = <<>> THEN Raise("KeyError")
    ELSE LET names == m.feature_names[1]
             order == DictOrder(m.models)
         IN
         IF \E i \in 1..Len(names) : names[i] \notin DOMAIN x THEN Raise("KeyError")
         ELSE IF \E n \in DOMAIN m.models : ~m.models[n].fitted
              THEN Raise("NotFittedError")
         ELSE IF \E n \in DOMAIN m.models : m.models[n].features # names
              THEN Raise("ValueError")
         ELSE IF \E n \in DOMAIN m.models : n \notin DOMAIN m.weights
              THEN Raise("KeyError")
         ELSE
         LET row == [i \in 1..Len(names) |-> x[names[i]]]
             predictions == [n \in DOMAIN m.models |-> LearnerPredict(m.models[n], row)]
             pred_values == [i \in 1..Len(order) |-> predictions[order[i]]]
             ensemble_pred ==
                 RSeqSum([i \in 1..Len(order) |->
                     RMul(m.weights[order[i]], RInt(predictions[order[i]]))])
             empty == Len(order) = 0
             mean_pred == IF empty THEN NaN ELSE Mean(pred_values)
             std_pred == IF empty THEN NaN ELSE Std(pred_values)
             confidence_margin == IF empty THEN NaN ELSE RMul(Z95, std_pred)
             lower_bound ==
                 IF empty THEN RInt(0)
                 ELSE RMax(RInt(0), RSub(ensemble_pred, confidence_margin))
             upper_bound ==
                 IF empty THEN NaN ELSE RAdd(ensemble_pred, confidence_margin)
         IN  Return([predicted_price |-> ensemble_pred,
                     price_lower |-> lower_bound,
                     price_upper |-> upper_bound,
                     confidence |->
                         IF ~empty /\ RLt(RInt(0), mean_pred)
                         THEN RSub(RInt(1), RDiv(std_pred, mean_pred))
                         ELSE FallbackConfidence,
                     model_predictions |-> predictions])

\* predict without its check of is_trained
PredictStepUnchecked(m, x) == PredictTrained(m, x)

\* HousePriceModel.predict
PredictStep(m, x) ==
    IF ~m.is_trained THEN Raise("Model not trained yet!")
    ELSE PredictTrained(m, x)

\* HousePriceModel.get_feature_importance: the importances of a fitted
\* learner are abstracted to its parameter for every feature
GetFeatureImportanceStep(m) ==
    IF ~m.is_trained THEN Return(EmptyDict)
    ELSE IF "xgboost" \notin DOMAIN m.models THEN Raise("KeyError")
    ELSE IF ~m.models["xgboost"].fitted THEN Raise("NotFittedError")
    ELSE IF "lightgbm" \notin DOMAIN m.models THEN Raise("KeyError")
    ELSE IF ~m.models["lightgbm"].fitted THEN Raise("NotFittedError")
    ELSE IF "catboost" \notin DOMAIN m.models THEN Raise("KeyError")
    ELSE Return([n \in {"xgboost", "lightgbm", "catboost", "average"} |->
                    IF n = "average"
                    THEN Rat(m.models["xgboost"].theta + m.models["lightgbm"].theta
                             + m.models["catboost"].theta, 3)
                    ELSE RInt(m.models[n].theta)])

(***************************************************************************)
(* Persistence                                                             *)
(***************************************************************************)
\* the keys of the saved dict, in the order load reads them
BlobKeys == <<"models", "weights", "feature_names", "metrics", "is_trained">>
BlobKeySet == {BlobKeys[i] : i \in 1..Len(BlobKeys)}

\* a save that stores the feature names in alphabetical order
SaveDataSortedNames(m) ==
    [k \in BlobKeySet |->
        CASE k = "models" -> m.models
          [] k = "weights" -> m.weights
          [] k = "feature_names" ->
                 IF m.feature_names = <<>> THEN <<>>
                 ELSE <<SelectSeq(<<"area", "bedrooms">>,
                            LAMBDA f : \E i \in 1..Len(m.feature_names[1]) :
                                          m.feature_names[1][i] = f)>>
          [] k = "metrics" -> m.metrics
          [] k = "is_trained" -> m.is_trained]

\* HousePriceModel.save: the dict handed to joblib.dump
SaveData(m) ==
    [k \in BlobKeySet |->
        CASE k = "models" -> m.models
          [] k = "weights" -> m.weights
          [] k = "feature_names" -> m.feature_names
          [] k = "metrics" -> m.metrics
          [] k = "is_trained" -> m.is_trained]

\* number of leading keys of BlobKeys that the dict d holds
RECURSIVE PresentPrefix(_, _)
PresentPrefix(d, i) ==
    IF i > Len(BlobKeys) \/ BlobKeys[i] \notin DOMAIN d THEN i - 1
    ELSE PresentPrefix(d, i + 1)

\* a load that keeps the field it has when the dict lacks the key
LoadStepLenient(m, d) ==
    [model |->
        [models |-> IF "models" \in DOMAIN d THEN d["models"] ELSE m.models,
         weights |-> IF "weights" \in DOMAIN d THEN d["weights"] ELSE m.weights,
         feature_names |-> IF "feature_names" \in DOMAIN d THEN d["feature_names"]
                           ELSE m.feature_names,
         metrics |-> IF "metrics" \in DOMAIN d THEN d["metrics"] ELSE m.metrics,
         is_trained |-> IF "is_trained" \in DOMAIN d THEN d["is_trained"]
                        ELSE m.is_trained],
     ret |-> Return(<<>>)]

\* HousePriceModel.load of the dict d: fields are assigned one by one, in
\* the order of BlobKeys, until a key is missing
LoadStep(m, d) ==
    LET k == PresentPrefix(d, 1)
        m1 == IF k >= 1 THEN [m EXCEPT !.models = d["models"]] ELSE m
        m2 == IF k >= 2 THEN [m1 EXCEPT !.weights = d["weights"]] ELSE m1
        m3 == IF k >= 3 THEN [m2 EXCEPT !.feature_names = d["feature_names"]] ELSE m2
        m4 == IF k >= 4 THEN [m3 EXCEPT !.metrics = d["metrics"]] ELSE m3
        m5 == IF k >= 5 THEN [m4 EXCEPT !.is_trained = d["is_trained"]] ELSE m4
    IN  [model |-> m5,
         ret |-> IF k = Len(BlobKeys) THEN Return(<<>>) ELSE Raise("KeyError")]

(***************************************************************************)
(* ModelExplainer                                                          *)
(***************************************************************************)
\* the default n_samples of setup
BackgroundCap == 100

\* ModelExplainer.__init__
NewExplainer == [explainer |-> <<>>, background_data |-> <<>>]

\* X_train.sample(n, random_state=42): a fixed choice of n rows
Sample(X, n) == [X EXCEPT !.rows = SubSeq(X.rows, 1, n)]

\* ModelExplainer.setup on the explainer e wrapping the model m
SetupStep(e, m, X, n_samples) ==
    LET bg == IF Len(X.rows) > n_samples THEN Sample(X, n_samples) ELSE X
        e1 == [e EXCEPT !.background_data = <<bg>>]
    IN  IF "xgboost" \in DOMAIN m.models
        THEN IF m.models["xgboost"].fitted
             THEN [explainer |-> [e1 EXCEPT !.explainer = <<m.models["xgboost"]>>],
                   ret |-> Return(<<>>)]
             ELSE [explainer |-> e1, ret |-> Raise("NotFittedError")]
        ELSE [explainer |-> e1, ret |-> Return(<<>>)]

\* a one-row frame with ordered columns, as the handlers build it
Frames ==
    {[columns |-> c, rows |-> <<r>>] :
        c \in {DataA.columns, DataB.columns}, r \in [1..2 -> 0..MaxVal]}

\* an attribution that takes the feature's value for what it adds
ShapValueUnweighted(l, row, i) == row[i]

\* the attribution of one feature for the explained learner: what the
\* feature adds to the learner's prediction at the zero row
ShapValue(l, row, i) == i * row[i]

\* a sort by decreasing signed value, the key without its abs()
RECURSIVE InsertByValue(_, _)
InsertByValue(srt, p) ==
    IF srt = <<>> THEN <<p>>
    ELSE IF p[2] > Head(srt)[2] THEN <<p>> \o srt
    ELSE <<Head(srt)>> \o InsertByValue(Tail(srt), p)

RECURSIVE SortByValue(_)
SortByValue(pairs) ==
    IF pairs = <<>> THEN <<>>
    ELSE InsertByValue(SortByValue(SubSeq(pairs, 1, Len(pairs) - 1)), pairs[Len(pairs)])

\* insertion of the pair p into a list sorted by decreasing absolute value,
\* after the pairs of equal absolute value (sorted(..., reverse=True) is stable)
RECURSIVE InsertByAbs(_, _)
InsertByAbs(srt, p) ==
    IF srt = <<>> THEN <<p>>
    ELSE IF Abs(p[2]) > Abs(Head(srt)[2]) THEN <<p>> \o srt
    ELSE <<Head(srt)>> \o InsertByAbs(Tail(srt), p)

RECURSIVE SortByAbs(_)
SortByAbs(pairs) ==
    IF pairs = <<>> THEN <<>>
    ELSE InsertByAbs(SortByAbs(SubSeq(pairs, 1, Len(pairs) - 1)), pairs[Len(pairs)])

\* number of factors reported
TopN == 5

\* explain_prediction from the attributions the explainer gave for the
\* frame's columns: the importance dict, its ranking and the top factors
ExplainResult(columns, values, base) ==
    LET n == Len(columns)
        pairs == [i \in 1..n |-> <<columns[i], values[i]>>]
        srt == SortByAbs(pairs)
        total_impact == SeqSum([i \in 1..n |-> Abs(pairs[i][2])])
        top == SubSeq(srt, 1, IF n < TopN THEN n ELSE TopN)
    IN  [shap_values |-> [c \in {columns[i] : i \in 1..n} |->
                             pairs[CHOOSE i \in 1..n : columns[i] = c][2]],
         top_factors |->
             [k \in 1..Len(top) |->
                 [feature |-> top[k][1],
                  impact |-> top[k][2],
                  impact_percentage |->
                      IF total_impact > 0
                      THEN Rat(Abs(top[k][2]) * 100, total_impact)
                      ELSE RInt(0),
                  direction |->
                      IF top[k][2] > 0 THEN "increases" ELSE "decreases"]],
         base_value |-> base]

\* ModelExplainer.explain_prediction on the one-row frame X, after its check
\* of the explainer
ExplainConfigured(e, X) ==
    LET l == e.explainer[1]
        row == X.rows[1]
        n == Len(X.columns)
    IN  IF X.columns # l.features THEN Raise("ValueError")
        ELSE Return(ExplainResult(X.columns,
                                  [i \in 1..n |-> ShapValue(l, row, i)],
                                  l.theta))

\* explain_prediction without its check: None has no shap_values
ExplainPredictionStepUnchecked(e, X) ==
    IF e.explainer = <<>> THEN Raise("AttributeError")
    ELSE ExplainConfigured(e, X)

\* ModelExplainer.explain_prediction on the one-row frame X
ExplainPredictionStep(e, X) ==
    IF e.explainer = <<>> THEN Return([error |-> "Explainer not setup"])
    ELSE ExplainConfigured(e, X)

(***************************************************************************)
(* compare_to_market                                                       *)
(***************************************************************************)
\* the tenths a predicted price is counted in
PriceDen == 10
\* the threshold, in percent, of the verdict
Threshold == 10

\* f"{v:.1f}": v rounded to tenths, as a number of tenths
Round1(v) == (2 * 10 * v[1] + v[2]) \div (2 * v[2])

\* the verdict with the thresholds included
VerdictInclusive(difference_pct) ==
    IF RLe(RInt(Threshold), difference_pct) THEN "overpriced"
    ELSE IF RLe(difference_pct, RInt(-Threshold)) THEN "underpriced"
    ELSE "fair"

\* the if/elif/else of compare_to_market
Verdict(difference_pct) ==
    IF RLt(RInt(Threshold), difference_pct) THEN "overpriced"
    ELSE IF RLt(difference_pct, RInt(-Threshold)) THEN "underpriced"
    ELSE "fair"

\* compare_to_market(predicted_price, similar_prices)
CompareToMarket(predicted_price, similar_prices) ==
    IF similar_prices = <<>>
    THEN [status |-> "unknown", difference_pct |-> RInt(0)]
    ELSE
    LET avg_similar == Mean(similar_prices)
        difference == RSub(predicted_price, avg_similar)
        difference_pct == RMul(RDiv(difference, avg_similar), RInt(100))
        status == Verdict(difference_pct)
    IN  [status |-> status,
         difference_pct |-> difference_pct,
         avg_similar_price |-> avg_similar,
         suggestion |->
             IF status = "fair" THEN <<"fair">>
             ELSE <<status, Round1(RAbs(difference_pct))>>]

(***************************************************************************)
(* get_similar_properties                                                  *)
(***************************************************************************)
\* most neighbours a caller asks for
MaxSimilar == 2

\* square root of a non-negative rational, to 1/SqrtScale
RSqrt(a) == Rat(ISqrt(SqrtScale * SqrtScale * a[1] * a[2]), SqrtScale * a[2])

\* the list f[1], ..., f[n]
RECURSIVE ToSeq(_, _)
ToSeq(f, n) == IF n = 0 THEN <<>> ELSE Append(ToSeq(f, n - 1), f[n])

Column(X, j) == ToSeq([i \in 1..Len(X.rows) |-> X.rows[i][j]], Len(X.rows))

\* StandardScaler: the population variance of a column, 1 when it is 0
ScaleVar(X, j) ==
    LET c == Column(X, j)
        n == Len(c)
        v == n * SeqSum([i \in 1..n |-> c[i] * c[i]]) - SeqSum(c) * SeqSum(c)
    IN  IF v = 0 THEN RInt(1) ELSE Rat(v, n * n)

\* squared Euclidean distance of the rows r and q after standardization
\* with the variances sv
SqDist(sv, r, q) ==
    RSeqSum([j \in 1..Len(sv) |->
        RDiv(RInt((r[j] - q[j]) * (r[j] - q[j])), sv[j])])

\* the squared distance of q to every row of X
Distances(X, q) ==
    LET sv == ToSeq([j \in 1..Len(X.columns) |-> ScaleVar(X, j)], Len(X.columns))
    IN  ToSeq([i \in 1..Len(X.rows) |-> SqDist(sv, X.rows[i], q)], Len(X.rows))

\* the index lists kneighbors can return for the squared distances d: k
\* distinct rows, in non-decreasing distance, none farther than a row left
\* out; the order among rows at equal distance is not fixed
Neighbours(d, k) ==
    {idx \in [1..k -> 1..Len(d)] :
        /\ \A a, b \in 1..k : a # b => idx[a] # idx[b]
        /\ \A a, b \in 1..k : a < b => RLe(d[idx[a]], d[idx[b]])
        /\ \A o \in 1..Len(d) :
              (\A a \in 1..k : idx[a] # o) =>
                  \A a \in 1..k : RLe(d[idx[a]], d[o])}

\* a score that falls linearly with the distance
SimilarityScoreLinear(dist) == RSub(RInt(1), dist)

\* float(1 / (1 + dist))
SimilarityScore(dist) == RDiv(RInt(1), RAdd(RInt(1), dist))

\* the list built from the neighbour indices idx
SimilarList(X, y, d, idx) ==
    [i \in 1..Len(idx) |->
        [rank |-> i,
         price |-> y[idx[i]],
         similarity_score |-> SimilarityScore(RSqrt(d[idx[i]])),
         features |-> [c \in {X.columns[j] : j \in 1..Len(X.columns)} |->
                          X.rows[idx[i]][CHOOSE j \in 1..Len(X.columns) : X.columns[j] = c]]]]

\* get_similar_properties(X_train, y_train, input_features, n_similar): the
\* results it can return
GetSimilarProperties(X, y, input, n_similar) ==
    IF input.columns # X.columns THEN {Raise("ValueError")}
    ELSE IF n_similar <= 0 THEN {Raise("ValueError")}
    ELSE LET k == IF n_similar < Len(X.rows) THEN n_similar ELSE Len(X.rows)
             d == Distances(X, input.rows[1])
         IN  {Return(SimilarList(X, y, d, idx)) : idx \in Neighbours(d, k)}

(***************************************************************************)
(* The external collaborator (ai_integration) and the crime lookup.  A     *)
(* text is a list of tokens: brackets and the members of a JSON object.    *)
(* A JSON value is a record of its type t and, for a number, its value v.  *)
(***************************************************************************)
JNum(r) == [t |-> "num", v |-> r]
JNull == [t |-> "null", v |-> RInt(0)]
\* a string that is no number
JStr == [t |-> "str", v |-> RInt(0)]
JTrue == [t |-> "bool", v |-> RInt(1)]

Brackets == {"{", "}", "[", "]"}
MemberTokens ==
    {"crime_index:7", "crime_index:null", "crime_index:high",
     "safety_score:3", "safety_score:null"}

MemberKey(tok) ==
    IF tok \in {"crime_index:7", "crime_index:null", "crime_index:high"}
    THEN "crime_index" ELSE "safety_score"

MemberValue(tok) ==
    CASE tok = "crime_index:7" -> JNum(RInt(7))
      [] tok = "safety_score:3" -> JNum(RInt(3))
      [] tok = "crime_index:high" -> JStr
      [] OTHER -> JNull

\* what the collaborator does on one request: there is no API key, the
\* request times out or raises, the status is not 200, or the answer
\* carries a text
FailureKinds == {"no_key", "timeout", "raises", "status"}
TextReply(s) == [kind |-> "text", text |-> s]
FailureReplies == {[kind |-> k, text |-> <<>>] : k \in FailureKinds}

\* PerplexityAI._query: the content of the answer, or None
Query(reply) == IF reply.kind = "text" THEN <<reply.text>> ELSE <<>>

\* str.find and str.rfind, counted from 1; 0 when the token is absent
Find(s, c) ==
    IF \E i \in 1..Len(s) : s[i] = c
    THEN CHOOSE i \in 1..Len(s) : s[i] = c /\ \A j \in 1..(i - 1) : s[j] # c
    ELSE 0
RFind(s, c) ==
    IF \E i \in 1..Len(s) : s[i] = c
    THEN CHOOSE i \in 1..Len(s) : s[i] = c /\ \A j \in (i + 1)..Len(s) : s[j] # c
    ELSE 0

\* response[start:end] from the first `open` to the last `close`, or None
\* when the condition start >= 0 and end > start fails
Extract(s, open, close) ==
    LET a == Find(s, open)
        b == RFind(s, close)
    IN  IF a >= 1 /\ b >= a THEN <<SubSeq(s, a, b)>> ELSE <<>>

\* json.loads of a text that starts with { and ends with }: the dict, a
\* later member replacing an earlier one of the same key; none on a
\* JSONDecodeError
LoadsObject(s) ==
    IF /\ Len(s) >= 2
       /\ s[1] = "{"
       /\ s[Len(s)] = "}"
       /\ \A i \in 2..(Len(s) - 1) : s[i] \in MemberTokens
    THEN <<[k \in {MemberKey(s[i]) : i \in 2..(Len(s) - 1)} |->
              MemberValue(s[CHOOSE i \in 2..(Len(s) - 1) :
                              /\ MemberKey(s[i]) = k
                              /\ \A j \in (i + 1)..(Len(s) - 1) : MemberKey(s[j]) # k])]>>
    ELSE <<>>

\* json.loads of a text that starts with [ and ends with ]: the list of its
\* (at most one) element; none on a JSONDecodeError
RECURSIVE LoadsArray(_)
LoadsArray(s) ==
    IF Len(s) < 2 \/ s[1] # "[" \/ s[Len(s)] # "]" THEN <<>>
    ELSE LET inner == SubSeq(s, 2, Len(s) - 1)
         IN  IF inner = <<>> THEN << <<>> >>
             ELSE IF LoadsObject(inner) # <<>> THEN << <<LoadsObject(inner)[1]>> >>
             ELSE IF LoadsArray(inner) # <<>> THEN << <<LoadsArray(inner)[1]>> >>
             ELSE <<>>

\* the dict d with d[key] = value
WithKey(d, key, value) ==
    [k \in DOMAIN d \cup {key} |-> IF k = key THEN value ELSE d[k]]

\* PerplexityAI.get_city_crime_data: the parsed dict marked real_time, or None
GetCityCrimeData(reply) ==
    LET response == Query(reply)
    IN  IF response = <<>> \/ response[1] = <<>> THEN <<>>
        ELSE LET body == Extract(response[1], "{", "}")
             IN  IF body = <<>> THEN <<>>
                 ELSE LET data == LoadsObject(body[1])
                      IN  IF data = <<>> THEN <<>>
                          ELSE <<WithKey(data[1], "real_time", JTrue)>>

\* data_processing.CITY_CRIME_INDEX: one of its cities and the default
CITY_CRIME_INDEX ==
    [c \in {"Delhi", "Default"} |-> IF c = "Delhi" THEN Rat(78, 10) ELSE RInt(5)]

\* the cities a caller names, and str.title on them
CityInputs == {"", "delhi", "rampur", "Rampur"}
Title(c) ==
    CASE c = "delhi" -> "Delhi"
      [] c = "rampur" -> "Rampur"
      [] OTHER -> c

\* the dict returned for the hardcoded index idx
CrimeFromIndex(city, idx, note) ==
    [city |-> city,
     crime_index |-> JNum(idx),
     safety_score |-> JNum(RSub(RInt(10), idx)),
     real_time |-> FALSE,
     note |-> note]

\* dict.get(key, default)
Get(d, key, default) == IF key \in DOMAIN d THEN d[key] ELSE default

\* data_processing.get_city_crime_score(city) with the cache as it is and
\* the collaborator answering with reply: the cache after the call and the
\* result
GetCityCrimeScoreStep(cache, name, reply) ==
    LET city == IF name = "" THEN "Default" ELSE Title(name)
        fallback == Return(CrimeFromIndex(city, CITY_CRIME_INDEX["Default"], TRUE))
    IN  IF city \in DOMAIN CITY_CRIME_INDEX
        THEN [cache |-> cache,
              ret |-> Return(CrimeFromIndex(city, CITY_CRIME_INDEX[city], FALSE))]
        ELSE IF city \in DOMAIN cache
        THEN [cache |-> cache,
              ret |-> Return([city |-> city,
                              crime_index |-> Get(cache[city], "crime_index", JNum(RInt(5))),
                              safety_score |-> Get(cache[city], "safety_score", JNum(RInt(5))),
                              real_time |-> TRUE,
                              cached |-> TRUE])]
        ELSE LET ai_data == GetCityCrimeData(reply)
             IN  IF ai_data = <<>> \/ "crime_index" \notin DOMAIN ai_data[1]
                 THEN [cache |-> cache, ret |-> fallback]
                 ELSE
                 LET cached == WithKey(cache, city, ai_data[1])
                     crime_index == ai_data[1]["crime_index"]
                     safety_score ==
                         Get(ai_data[1], "safety_score",
                             JNum(RSub(RInt(10), crime_index.v)))
                 IN  \* float() of a null or of a string raises; the broad
                     \* except falls through to the default
                     IF crime_index.t # "num" \/ safety_score.t # "num"
                     THEN [cache |-> cached, ret |-> fallback]
                     ELSE [cache |-> cached,
                           ret |-> Return([city |-> city,
                                           crime_index |-> crime_index,
                                           safety_score |-> safety_score,
                                           real_time |-> TRUE])]

\* the answers of the collaborator to a crime query
CrimeTexts ==
    {<<>>, <<"{">>, <<"{", "[", "}">>, <<"{", "}">>,
     <<"{", "crime_index:7", "}">>,
     <<"{", "crime_index:null", "}">>,
     <<"{", "crime_index:high", "}">>,
     <<"{", "safety_score:3", "}">>,
     <<"{", "crime_index:7", "safety_score:3", "}">>,
     <<"{", "crime_index:7", "safety_score:null", "}">>}
CrimeReplies == FailureReplies \cup {TextReply(s) : s \in CrimeTexts}

(***************************************************************************)
(* backend/app.py: the model bootstrap and the compare handler             *)
(***************************************************************************)
\* n_similar of the compare handler
HandlerSimilar == 5

\* the sorted values of a list of integers
RECURSIVE SortInts(_)
SortInts(c) ==
    IF c = <<>> THEN <<>>
    ELSE LET i == CHOOSE i \in 1..Len(c) : \A j \in 1..Len(c) : c[i] <= c[j]
         IN  <<c[i]>> \o SortInts([k \in 1..(Len(c) - 1) |-> IF k < i THEN c[k] ELSE c[k + 1]])

\* X_train[feat].median() for a column with an odd number of rows
Median(c) == SortInts(c)[(Len(c) + 1) \div 2]

ColIndex(X, f) == CHOOSE j \in 1..Len(X.columns) : X.columns[j] = f

\* the handler's response for an exception e
ErrorResponse(code, e) == Return([status |-> code, error |-> e])

\* the feature vector a handler hands to the model: the filled request in
\* the order of the schema
SchemaRow(m, filled) ==
    [i \in 1..Len(m.feature_names[1]) |-> filled[m.feature_names[1][i]]]

\* app.compare's filling: a schema feature the request lacks gets the
\* median of its training column, or 0 if the training data has no such column
MedianFilled(m, X, data) ==
    [f \in DOMAIN data \cup {m.feature_names[1][i] : i \in 1..Len(m.feature_names[1])} |->
        IF f \in DOMAIN data THEN data[f]
        ELSE IF \E j \in 1..Len(X.columns) : X.columns[j] = f
             THEN Median(Column(X, ColIndex(X, f)))
             ELSE 0]

\* app.compare for the request body data: the responses it can give
CompareHandler(m, X, y, data) ==
    IF DOMAIN data = {} THEN {ErrorResponse(400, "No input data provided")}
    ELSE IF m.feature_names = <<>> THEN {ErrorResponse(500, "TypeError")}
    ELSE
    LET names == m.feature_names[1]
        filled == MedianFilled(m, X, data)
        input_features == [columns |-> names, rows |-> <<SchemaRow(m, filled)>>]
        prediction == PredictStep(m, filled)
    IN  IF prediction.kind = "raise" THEN {ErrorResponse(500, prediction.error)}
        ELSE {IF similar.kind = "raise" THEN ErrorResponse(500, similar.error)
              ELSE Return([status |-> 200,
                           success |-> TRUE,
                           similar_properties |-> similar.value,
                           market_comparison |->
                               CompareToMarket(prediction.value.predicted_price,
                                   [i \in 1..Len(similar.value) |-> similar.value[i].price])]) :
                 similar \in GetSimilarProperties(X, y, input_features, HandlerSimilar)}

\* the city a request names: the code of the field city, or the handler's
\* default when the field is absent
RequestCity(data) ==
    IF "city" \in DOMAIN data
    THEN (IF data["city"] = 0 THEN "delhi" ELSE "rampur")
    ELSE "Default"

\* the request body with every schema feature it lacks set to 0
ZeroFilled(m, data) ==
    [f \in DOMAIN data \cup {m.feature_names[1][i] : i \in 1..Len(m.feature_names[1])} |->
        IF f \in DOMAIN data THEN data[f] ELSE 0]

\* app.predict for the request body data, the collaborator answering the
\* crime lookup with reply: the crime cache after the request and the
\* response.  The formatted strings of the response are left out.
PredictHandler(m, cache, data, reply) ==
    IF DOMAIN data = {}
    THEN [cache |-> cache, ret |-> ErrorResponse(400, "No input data provided")]
    ELSE
    LET crime == GetCityCrimeScoreStep(cache, RequestCity(data), reply)
        fail(e) == [cache |-> crime.cache, ret |-> ErrorResponse(500, e)]
    IN  IF m.feature_names = <<>> THEN fail("TypeError")
        ELSE
        LET prediction == PredictStep(m, ZeroFilled(m, data))
            area == IF "area" \in DOMAIN data THEN data["area"] ELSE 1
        IN  IF prediction.kind = "raise" THEN fail(prediction.error)
            ELSE IF area = 0 THEN fail("ZeroDivisionError")
            ELSE [cache |-> crime.cache,
                  ret |-> Return(
                      [status |-> 200,
                       success |-> TRUE,
                       prediction |->
                           [price |-> prediction.value.predicted_price,
                            lower |-> prediction.value.price_lower,
                            upper |-> prediction.value.price_upper,
                            price_per_sqft |->
                                RDiv(prediction.value.predicted_price, RInt(area)),
                            confidence |->
                                RMul(prediction.value.confidence, RInt(100))],
                       location |->
                           [city |-> RequestCity(data),
                            crime_index |-> crime.ret.value.crime_index,
                            safety_score |-> crime.ret.value.safety_score]])]

\* app.explain for the request body data
ExplainHandler(m, e, data) ==
    IF DOMAIN data = {} THEN ErrorResponse(400, "No input data provided")
    ELSE IF m.feature_names = <<>> THEN ErrorResponse(500, "TypeError")
    ELSE
    LET names == m.feature_names[1]
        filled == ZeroFilled(m, data)
        input_features == [columns |-> names,
                           rows |-> <<[i \in 1..Len(names) |-> filled[names[i]]]>>]
        explanation == ExplainPredictionStep(e, input_features)
    IN  IF explanation.kind = "raise" THEN ErrorResponse(500, explanation.error)
        ELSE Return([status |-> 200,
                     success |-> TRUE,
                     explanation |-> explanation.value])

\* app.get_feature_importance: the handler catches nothing, so an exception
\* of the model becomes the server's own 500 answer
FeatureImportanceHandler(m) ==
    LET importance == GetFeatureImportanceStep(m)
    IN  IF importance.kind = "raise" THEN ErrorResponse(500, "Internal Server Error")
        ELSE Return([status |-> 200,
                     feature_importance |-> Get(importance.value, "average", EmptyDict),
                     model_specific |-> importance.value])

(***************************************************************************)
(* State machine.  call and ret are the last call made and its result;     *)
(* saved is the model as it was when save last wrote the file.             *)
(***************************************************************************)
Call(op, arg) == [op |-> op, arg |-> arg]

\* the file is absent, or holds the dict that was dumped
NoFile == <<>>

Init ==
    /\ model = NewModel
    /\ explainer = NewExplainer
    /\ X_train \in TrainSets
    /\ y_train = PricesA
    /\ blob = NoFile
    /\ call = Call("init", <<>>)
    /\ ret = Return(<<>>)
    /\ saved = <<>>
    /\ crime_cache = EmptyDict

\* model = HousePriceModel(); explainer = ModelExplainer(model)
Construct ==
    /\ model' = NewModel
    /\ explainer' = NewExplainer
    /\ call' = Call("construct", <<>>)
    /\ ret' = Return(<<>>)
    /\ UNCHANGED <<X_train, y_train, crime_cache, blob, saved>>

\* model.train(X_train, y_train) with the fits ending as out says
Train ==
    \E out \in [LearnerNames -> FitOutcomes] :
        LET r == TrainStep(model, X_train, y_train, out)
        IN  /\ model' = r.model
            /\ ret' = r.ret
            /\ call' = Call("train", <<>>)
            /\ UNCHANGED <<explainer, X_train, y_train, crime_cache, blob, saved>>

\* train_and_save_model: a new model is trained on the prepared data and
\* saved; an exception of train leaves the file as it is
TrainAndSaveModel ==
    \E out \in [LearnerNames -> FitOutcomes] :
        LET r == TrainStep(NewModel, X_train, y_train, out)
        IN  /\ model' = r.model
            /\ ret' = r.ret
            /\ call' = Call("train_and_save_model", <<>>)
            /\ IF r.ret.kind = "return"
               THEN blob' = <<SaveData(r.model)>> /\ saved' = <<r.model>>
               ELSE UNCHANGED <<blob, saved>>
            /\ UNCHANGED <<explainer, X_train, y_train, crime_cache>>

\* model.save(filepath)
Save ==
    /\ blob' = <<SaveData(model)>>
    /\ saved' = <<model>>
    /\ call' = Call("save", <<>>)
    /\ ret' = Return(<<>>)
    /\ UNCHANGED <<model, explainer, X_train, y_train, crime_cache>>

\* model.load(filepath)
Load ==
    /\ call' = Call("load", <<>>)
    /\ IF blob = NoFile
       THEN ret' = Raise("FileNotFoundError") /\ UNCHANGED model
       ELSE LET r == LoadStep(model, blob[1])
            IN  model' = r.model /\ ret' = r.ret
    /\ UNCHANGED <<explainer, X_train, y_train, crime_cache, blob, saved>>

\* the file loses one of its keys (a file written by something else than save)
DropKey ==
    /\ blob # NoFile
    /\ DOMAIN blob[1] = BlobKeySet
    /\ \E k \in BlobKeySet :
          /\ blob' = <<[j \in BlobKeySet \ {k} |-> blob[1][j]]>>
          /\ call' = Call("drop_key", k)
    /\ ret' = Return(<<>>)
    /\ UNCHANGED <<model, explainer, X_train, y_train, crime_cache, saved>>

\* a predict that sorts the model's feature names in place
PredictSortsSchema ==
    \E x \in Inputs :
        /\ call' = Call("predict", x)
        /\ ret' = PredictStep(model, x)
        /\ model' = [model EXCEPT !.feature_names = SaveDataSortedNames(model)["feature_names"]]
        /\ UNCHANGED <<explainer, X_train, y_train, crime_cache, blob, saved>>

\* model.predict(x)
Predict ==
    \E x \in Inputs :
        LET r == PredictStep(model, x)
        IN  /\ call' = Call("predict", x)
            /\ ret' = r
            /\ UNCHANGED <<model, explainer, X_train, y_train, crime_cache, blob, saved>>

\* model.get_feature_importance()
GetFeatureImportance ==
    /\ call' = Call("get_feature_importance", <<>>)
    /\ ret' = GetFeatureImportanceStep(model)
    /\ UNCHANGED <<model, explainer, X_train, y_train, crime_cache, blob, saved>>

\* explainer.setup(X_train)
Setup ==
    LET r == SetupStep(explainer, model, X_train, BackgroundCap)
    IN  /\ explainer' = r.explainer
        /\ ret' = r.ret
        /\ call' = Call("setup", <<>>)
        /\ UNCHANGED <<model, X_train, y_train, crime_cache, blob, saved>>

\* explainer.explain_prediction(X)
ExplainPrediction ==
    \E X \in Frames :
        /\ call' = Call("explain_prediction", X)
        /\ ret' = ExplainPredictionStep(explainer, X)
        /\ UNCHANGED <<model, explainer, X_train, y_train, crime_cache, blob, saved>>

\* a get_similar_properties whose scaler centres the caller's frame in place
GetSimilarInPlace ==
    \E X \in Frames, k \in 1..MaxSimilar :
        /\ call' = Call("get_similar_properties", <<X, k>>)
        /\ ret' \in GetSimilarProperties(X_train, y_train, X, k)
        /\ X_train' = [X_train EXCEPT !.rows =
               [i \in 1..Len(X_train.rows) |->
                   [j \in 1..Len(X_train.columns) |->
                       Len(X_train.rows) * X_train.rows[i][j] - SeqSum(Column(X_train, j))]]]
        /\ UNCHANGED <<model, explainer, y_train, crime_cache, blob, saved>>

\* get_similar_properties(X_train, y_train, input_features, n_similar)
GetSimilar ==
    \E X \in Frames, k \in 1..MaxSimilar :
        /\ call' = Call("get_similar_properties", <<X, k>>)
        /\ ret' \in GetSimilarProperties(X_train, y_train, X, k)
        /\ UNCHANGED <<model, explainer, X_train, y_train, crime_cache, blob, saved>>

\* the predicted prices and the lists of similar prices a caller passes
PredictedPrices == {Rat(n, PriceDen) : n \in 0..(MaxPredicted * PriceDen)}
RECURSIVE SeqsUpTo(_, _)
SeqsUpTo(S, n) ==
    IF n = 0 THEN {<<>>}
    ELSE SeqsUpTo(S, n - 1) \cup [1..n -> S]
SimilarPrices == SeqsUpTo(1..MaxPrice, MaxPrices)

\* compare_to_market(predicted_price, similar_prices)
Compare ==
    \E p \in PredictedPrices, sp \in SimilarPrices :
        /\ call' = Call("compare_to_market", <<p, sp>>)
        /\ ret' = Return(CompareToMarket(p, sp))
        /\ UNCHANGED <<model, explainer, X_train, y_train, crime_cache, blob, saved>>

\* app.compare(data)
ApiCompare ==
    \E data \in Inputs :
        /\ call' = Call("api_compare", data)
        /\ ret' \in CompareHandler(model, X_train, y_train, data)
        /\ UNCHANGED <<model, explainer, X_train, y_train, crime_cache, blob, saved>>

\* the answers asked of the collaborator by a request: it is asked only for
\* a city outside the hardcoded index
RepliesFor(name) ==
    IF (IF name = "" THEN "Default" ELSE Title(name)) \in DOMAIN CITY_CRIME_INDEX
    THEN {[kind |-> "no_key", text |-> <<>>]}
    ELSE CrimeReplies

\* app.predict(data) for a request body of the set bodies
ApiPredictOf(bodies) ==
    \E data \in bodies :
        \E reply \in RepliesFor(RequestCity(data)) :
            LET r == PredictHandler(model, crime_cache, data, reply)
            IN  /\ call' = Call("api_predict", data)
                /\ ret' = r.ret
                /\ crime_cache' = r.cache
                /\ UNCHANGED <<model, explainer, X_train, y_train, blob, saved>>

\* app.predict(data)
ApiPredict == ApiPredictOf(Inputs)

\* app.explain(data)
ApiExplain ==
    \E data \in Inputs :
        /\ call' = Call("api_explain", data)
        /\ ret' = ExplainHandler(model, explainer, data)
        /\ UNCHANGED <<model, explainer, X_train, y_train, crime_cache, blob, saved>>

\* app.get_feature_importance()
ApiFeatureImportance ==
    /\ call' = Call("api_feature_importance", <<>>)
    /\ ret' = FeatureImportanceHandler(model)
    /\ UNCHANGED <<model, explainer, X_train, y_train, crime_cache, blob, saved>>

\* the names of the handler calls
ApiOps == {"api_predict", "api_explain", "api_compare", "api_feature_importance"}

\* the server answers requests once load_model has returned
Serving == (call.op = "load_model" /\ ret.kind = "return") \/ call.op \in ApiOps

\* a request is served
Serve ==
    /\ Serving
    /\ \/ ApiPredict
       \/ ApiExplain
       \/ ApiCompare
       \/ ApiFeatureImportance

\* app.load_model: the model is loaded from the file if there is one, else
\* trained and saved; then the explainer is set up.  An exception ends it.
LoadModel ==
    /\ call' = Call("load_model", <<>>)
    /\ UNCHANGED <<X_train, y_train, crime_cache>>
    /\ IF blob # NoFile
       THEN LET r == LoadStep(NewModel, blob[1])
                e == SetupStep(NewExplainer, r.model, X_train, BackgroundCap)
            IN  /\ model' = r.model
                /\ UNCHANGED <<blob, saved>>
                /\ IF r.ret.kind = "raise"
                   THEN ret' = r.ret /\ UNCHANGED explainer
                   ELSE ret' = e.ret /\ explainer' = e.explainer
       ELSE \E out \in [LearnerNames -> FitOutcomes] :
            LET r == TrainStep(NewModel, X_train, y_train, out)
                e == SetupStep(NewExplainer, r.model, X_train, BackgroundCap)
            IN  /\ model' = r.model
                /\ IF r.ret.kind = "raise"
                   THEN ret' = r.ret /\ UNCHANGED <<explainer, blob, saved>>
                   ELSE /\ blob' = <<SaveData(r.model)>>
                        /\ saved' = <<r.model>>
                        /\ ret' = e.ret
                        /\ explainer' = e.explainer

(***************************************************************************)
(* The market lookups of PerplexityAI                                      *)
(***************************************************************************)
\* longest answer of the collaborator, in tokens
MaxText == 3

\* a lookup that lets the JSONDecodeError escape
DecodeFailedRaise(fallback) == Raise("JSONDecodeError")

\* except json.JSONDecodeError: pass, and the lookup goes on to its fallback
DecodeFailed(fallback) == Return(fallback)

\* the body shared by the four lookups: the answer is searched for the
\* outermost brackets, parsed and, for the lookups that mark their result,
\* marked with the key flag; otherwise the fallback is returned
LookupStep(reply, array, flag, fallback) ==
    LET response == Query(reply)
    IN  IF response = <<>> \/ response[1] = <<>> THEN Return(fallback)
        ELSE LET body == IF array THEN Extract(response[1], "[", "]")
                         ELSE Extract(response[1], "{", "}")
             IN  IF body = <<>> THEN Return(fallback)
                 ELSE IF array
                      THEN IF LoadsArray(body[1]) = <<>> THEN DecodeFailed(fallback)
                           ELSE Return(LoadsArray(body[1])[1])
                      ELSE IF LoadsObject(body[1]) = <<>> THEN DecodeFailed(fallback)
                           ELSE Return(IF flag = "" THEN LoadsObject(body[1])[1]
                                       ELSE WithKey(LoadsObject(body[1])[1], flag, JTrue))

\* _get_fallback_market_data: the table has Mumbai, an unlisted city gets
\* the default row; yoy in percent
FallbackMarketData(city) ==
    LET data == IF city = "Mumbai"
                THEN [avg |-> 15000, trend |-> "rising", yoy |-> Rat(85, 10)]
                ELSE [avg |-> 6000, trend |-> "stable", yoy |-> RInt(5)]
    IN  [city |-> city,
         avg_price_per_sqft |-> data.avg,
         market_trend |-> data.trend,
         yoy_change_percent |-> data.yoy,
         demand_level |-> IF RLt(RInt(7), data.yoy) THEN "high" ELSE "medium",
         rental_yield_percent |-> Rat(35, 10),
         data_source |-> "cached market data",
         real_time |-> FALSE]

\* _get_fallback_listings
FallbackListings(city, bedrooms, budget) ==
    LET base_area == 800 + bedrooms * 300
        wider == (base_area * 11) \div 10
        listing(platform, factor, area, where, age) ==
            [platform |-> platform,
             price_lakhs |-> RMul(RInt(budget), factor),
             area_sqft |-> area,
             bedrooms |-> bedrooms,
             location |-> <<city, where>>,
             price_per_sqft |-> RDiv(RMul(RInt(budget * 100000), factor),
                                     IF area = base_area THEN RInt(base_area)
                                     ELSE Rat(base_area * 11, 10)),
             listing_age_days |-> age]
    IN  <<listing("99acres", Rat(95, 100), base_area, "Central", 5),
          listing("MagicBricks", Rat(102, 100), wider, "Suburbs", 12),
          listing("Housing.com", Rat(98, 100), base_area, "East", 3)>>

\* the fallback dict of enhance_prediction
FallbackEnhanced(base_price) ==
    [ai_adjusted_price_lakhs |-> Rat(base_price, 100000),
     confidence_score |-> 75,
     market_alignment |-> "fair",
     price_adjustment_percent |-> 0,
     investment_rating |-> "good",
     ai_enhanced |-> FALSE]

\* _get_fallback_comparison
FallbackComparison(city, predicted_price) ==
    LET price_lakhs == Rat(predicted_price, 100000)
    IN  [market_average_lakhs |-> RMul(price_lakhs, Rat(976, 1000)),
         your_price_vs_market |-> "fair",
         best_platform_to_buy |-> "NoBroker",
         real_time |-> FALSE]

\* the cities asked about and the defaults of the handlers for the other
\* arguments
LookupCities == {"Mumbai", "Rampur"}
DefaultBedrooms == 2
DefaultBudget == 50
DefaultBasePrice == 0
DefaultPredictedPrice == 5000000

\* the answers of the collaborator to a market query
LookupReplies == FailureReplies \cup {TextReply(s) : s \in SeqsUpTo(Brackets, MaxText)}

\* perplexity_ai.get_real_time_market_data(city)
GetRealTimeMarketData ==
    \E city \in LookupCities, reply \in LookupReplies :
        /\ call' = Call("get_real_time_market_data", [city |-> city, reply |-> reply])
        /\ ret' = LookupStep(reply, FALSE, "", FallbackMarketData(city))
        /\ UNCHANGED <<model, explainer, X_train, y_train, crime_cache, blob, saved>>

\* perplexity_ai.get_live_property_listings(city, bedrooms, budget_lakhs)
GetLivePropertyListings ==
    \E reply \in LookupReplies :
        /\ call' = Call("get_live_property_listings", [city |-> "Mumbai", reply |-> reply])
        /\ ret' = LookupStep(reply, TRUE, "",
                             FallbackListings("Mumbai", DefaultBedrooms, DefaultBudget))
        /\ UNCHANGED <<model, explainer, X_train, y_train, crime_cache, blob, saved>>

\* perplexity_ai.enhance_prediction(base_price, city, area, bedrooms, amenities)
EnhancePrediction ==
    \E reply \in LookupReplies :
        /\ call' = Call("enhance_prediction", [city |-> "Mumbai", reply |-> reply])
        /\ ret' = LookupStep(reply, FALSE, "ai_enhanced", FallbackEnhanced(DefaultBasePrice))
        /\ UNCHANGED <<model, explainer, X_train, y_train, crime_cache, blob, saved>>

\* perplexity_ai.get_market_comparison(city, predicted_price)
GetMarketComparison ==
    \E reply \in LookupReplies :
        /\ call' = Call("get_market_comparison", [city |-> "Mumbai", reply |-> reply])
        /\ ret' = LookupStep(reply, FALSE, "real_time",
                             FallbackComparison("Mumbai", DefaultPredictedPrice))
        /\ UNCHANGED <<model, explainer, X_train, y_train, crime_cache, blob, saved>>

\* get_city_crime_score(city), the collaborator answering with reply
GetCityCrimeScore ==
    \E name \in CityInputs, reply \in CrimeReplies :
        LET r == GetCityCrimeScoreStep(crime_cache, name, reply)
        IN  /\ crime_cache' = r.cache
            /\ ret' = r.ret
            /\ call' = Call("get_city_crime_score", <<name, reply>>)
            /\ UNCHANGED <<model, explainer, X_train, y_train, blob, saved>>

(***************************************************************************)
(* Specifications                                                          *)
(***************************************************************************)
\* training: a model object that is constructed and trained (again), and
\* the training pipeline
NextTrain ==
    \/ Construct
    \/ Train
    \/ TrainAndSaveModel

SpecTrain == Init /\ [][NextTrain]_vars

\* prediction: a model object that is constructed, trained and queried
NextPredict ==
    \/ Construct
    \/ Train
    \/ Predict
    \/ GetFeatureImportance

SpecPredict == Init /\ [][NextPredict]_vars

\* persistence: models that are trained and saved by the pipeline, saved
\* and loaded by hand, and queried
NextPersist ==
    \/ Construct
    \/ TrainAndSaveModel
    \/ Save
    \/ Load
    \/ Predict

SpecPersist == Init /\ [][NextPersist]_vars

\* loading files that lack a key
NextLoad ==
    \/ Construct
    \/ TrainAndSaveModel
    \/ DropKey
    \/ Load

SpecLoad == Init /\ [][NextLoad]_vars

\* serving: the bootstrap of the application and the serving-path operations
NextServe ==
    \/ LoadModel
    \/ Setup
    \/ Predict
    \/ ExplainPrediction
    \/ GetSimilar
    \/ ApiCompare
    \/ GetFeatureImportance

SpecServe == Init /\ [][NextServe]_vars

\* compare_to_market over its inputs
NextMarket == Compare

SpecMarket == Init /\ [][NextMarket]_vars

\* the crime lookup, called again and again in one process
NextCrime == GetCityCrimeScore

SpecCrime == Init /\ [][NextCrime]_vars

\* the market lookups
NextLookup ==
    \/ GetRealTimeMarketData
    \/ GetLivePropertyListings
    \/ EnhancePrediction
    \/ GetMarketComparison

SpecLookup == Init /\ [][NextLookup]_vars

\* the application: a model file is written by the pipeline or by a script
\* that constructs and saves a model, the server is started and serves
NextApi ==
    \/ Construct
    \/ Save
    \/ LoadModel
    \/ Serve

SpecApi == Init /\ [][NextApi]_vars

\* explanation: the application is started and asked for explanations
NextExplain ==
    \/ LoadModel
    \/ Setup
    \/ ExplainPrediction

SpecExplain == Init /\ [][NextExplain]_vars

\* confidence: models as train() leaves them when the fits end with
\* parameters of either sign, so that learners predict prices on both sides
\* of zero, and predictions asked of them
WideFits == {[ok |-> TRUE, theta |-> th, r2 |-> 5] : th \in (-MaxTheta)..MaxTheta}
TrainedModels ==
    {TrainStep(NewModel, DataA, PricesA, out).model : out \in [LearnerNames -> WideFits]}

InitTrained ==
    /\ model \in TrainedModels
    /\ explainer = NewExplainer
    /\ X_train = DataA
    /\ y_train = PricesA
    /\ blob = NoFile
    /\ call = Call("train", <<>>)
    /\ ret = Return(model.metrics)
    /\ saved = <<>>
    /\ crime_cache = EmptyDict

SpecConfidence == InitTrained /\ [][Predict]_vars

\* factors: explain_prediction on frames of up to MaxFactors columns, for
\* the attributions the tree explainer may give (of either sign, with ties
\* and zeros); the attributions are drawn at the start and ranked once
FactorNames ==
    <<"area", "bedrooms", "bathrooms", "stories", "parking", "mainroad",
      "airconditioning", "furnishing_score", "amenity_score", "crime_index",
      "safety_score">>
ShapRange == {-2, -1, 0, 1, 2}
ShapLists == UNION {[1..n -> ShapRange] : n \in 1..MaxFactors}

InitFactors ==
    /\ model = NewModel
    /\ explainer = [explainer |-> <<Fitted(0, <<>>)>>, background_data |-> <<DataA>>]
    /\ X_train = DataA
    /\ y_train = PricesA
    /\ blob = NoFile
    /\ call \in {Call("shap_values", v) : v \in ShapLists}
    /\ ret = Return(<<>>)
    /\ saved = <<>>
    /\ crime_cache = EmptyDict

\* explainer.explain_prediction(X) where shap_values(X) gives call.arg
ExplainPredictionOf ==
    /\ call.op = "shap_values"
    /\ call' = Call("explain_prediction", call.arg)
    /\ ret' = Return(ExplainResult(SubSeq(FactorNames, 1, Len(call.arg)), call.arg,
                                   explainer.explainer[1].theta))
    /\ UNCHANGED <<model, explainer, X_train, y_train, crime_cache, blob, saved>>

SpecFactors == InitFactors /\ [][ExplainPredictionOf]_vars

\* concurrent requests: the server is started and answers predict requests
\* that name a city, one request at a time in any order
CityRequests ==
    {[area |-> 1, bedrooms |-> b, city |-> c] : b \in 0..1, c \in 0..MaxVal}

\* app.predict(data) for a body that names a city
ApiPredictCity == Serving /\ ApiPredictOf(CityRequests)

NextRequests ==
    \/ LoadModel
    \/ ApiPredictCity

SpecRequests == Init /\ [][NextRequests]_vars

\* similar properties: the application is started and asked for neighbours
NextSimilar ==
    \/ LoadModel
    \/ GetSimilar

SpecSimilar == Init /\ [][NextSimilar]_vars

(***************************************************************************)
(* Properties                                                              *)
(***************************************************************************)
WeightSeq(m) == [i \in 1..Len(DictOrder(m.weights)) |-> m.weights[DictOrder(m.weights)[i]]]

\* C1: after a train() that completes, whatever the held-out r2 scores
\* were, every blend weight is non-negative and the weights sum to 1.
C1_WeightsNonNegativeSumToOne ==
    (call.op \in {"train", "train_and_save_model"} /\ ret.kind = "return") =>
        /\ \A n \in DOMAIN model.weights : RLe(RInt(0), model.weights[n])
        /\ RSeqSum(WeightSeq(model)) = RInt(1)

\* C2: every result of predict() on a trained model has
\* price_lower <= predicted_price <= price_upper and price_lower >= 0.
C2_IntervalBracketsEstimate ==
    (call.op = "predict" /\ ret.kind = "return") =>
        /\ RLe(ret.value.price_lower, ret.value.predicted_price)
        /\ RLe(ret.value.predicted_price, ret.value.price_upper)
        /\ RLe(RInt(0), ret.value.price_lower)

\* C3: predict() on a model whose trained flag is false (fresh, after a
\* failed train, or loaded from a file whose flag is false) raises the
\* untrained-model error and returns no prediction.
C3_UntrainedPredictFails ==
    (call.op = "predict" /\ ~model.is_trained) =>
        ret = Raise("Model not trained yet!")

\* a predict on a model that holds learners and a schema but whose flag is
\* false, as the file that was saved says
C3_Witness ==
    /\ call.op = "predict"
    /\ ~model.is_trained
    /\ model.feature_names # <<>>
    /\ blob # NoFile
    /\ blob[1]["is_trained"] = FALSE
    /\ model.models = blob[1]["models"]
    /\ ret.kind = "raise"

\* C4: a train() in which a learner's fit fails does not set the trained
\* flag and leaves the model's learners, weights and feature_names as they
\* were before the call; the training pipeline saves nothing.
C4_FailedTrainLeavesModel ==
    [][/\ (call'.op = "train" /\ ret' = Raise("FitError")) =>
              /\ model'.is_trained = model.is_trained
              /\ model'.models = model.models
              /\ model'.weights = model.weights
              /\ model'.feature_names = model.feature_names
       /\ (call'.op = "train_and_save_model" /\ ret' = Raise("FitError")) =>
              blob' = blob]_vars

ServingOps ==
    {"predict", "explain_prediction", "get_similar_properties", "api_compare",
     "get_feature_importance"}

\* C5: once the model is trained or loaded, no serving-path operation
\* (predict, explain_prediction, get_similar_properties, compare_to_market,
\* get_feature_importance) changes the model's learners, weights,
\* feature_names, metrics or trained flag, nor the caller's training data.
C5_ServingLeavesModel ==
    [][(model.is_trained /\ call'.op \in ServingOps) =>
           /\ model' = model
           /\ X_train' = X_train
           /\ y_train' = y_train]_vars

\* the compare handler has answered on a trained model: predict,
\* get_similar_properties and compare_to_market have run
C5_Witness ==
    /\ model.is_trained
    /\ call.op = "api_compare"
    /\ ret.value.status = 200

\* C6: predict() gives the same result for the same input every time it is
\* called on the same trained or loaded model, whatever serving calls are
\* made in between: no serving call changes the result predict has for any
\* input, and a predict repeated with the same input returns the same.
C6_PredictRepeatable ==
    [][call'.op \in ServingOps =>
           /\ \/ model' = model
              \/ \A x \in Inputs : PredictStep(model', x) = PredictStep(model, x)
           /\ (call.op = "predict" /\ call'.op = "predict" /\ call'.arg = call.arg) =>
                  ret' = ret
           /\ call'.op = "predict" => ret' = PredictStep(model', call'.arg)]_vars

\* a prediction returned by a trained model whose explainer is set up
C6_Witness ==
    /\ model.is_trained
    /\ explainer.explainer # <<>>
    /\ call.op = "predict"
    /\ ret.kind = "return"

\* C7: after save() and a load() of the file, the model has the learners,
\* weights, ordered feature_names, metrics and trained flag of the model
\* that was saved, and predict() gives the same result on every input.
C7_SaveLoadRoundTrip ==
    (call.op = "load" /\ ret.kind = "return") =>
        /\ saved # <<>>
        /\ model = saved[1]
        /\ \A x \in Inputs : PredictStep(model, x) = PredictStep(saved[1], x)

\* a trained model has been loaded from the file
C7_Witness ==
    /\ call.op = "load"
    /\ ret.kind = "return"
    /\ model.is_trained
    /\ model.feature_names = <<DataB.columns>>

\* C8: load() of a file that lacks one of the keys models, weights,
\* feature_names, metrics, is_trained raises an error and does not make the
\* model usable: the trained flag is as before, and a model that was
\* untrained still refuses every predict.
C8_LoadRejectsIncomplete ==
    [][(call'.op = "load" /\ blob # NoFile /\ DOMAIN blob[1] # BlobKeySet) =>
           /\ ret' = Raise("KeyError")
           /\ model'.is_trained = model.is_trained
           /\ ~model.is_trained =>
                  \A x \in Inputs : PredictStep(model', x) = Raise("Model not trained yet!")]_vars

\* a load has failed on a file without its last keys, after it had taken
\* the weights of the file into an untrained model
C8_Witness ==
    /\ call.op = "load"
    /\ ret = Raise("KeyError")
    /\ ~model.is_trained
    /\ model.weights # EmptyDict

\* C9: explain_prediction() on an explainer whose setup() was never called
\* gives the not-configured error and no attribution values.
C9_ExplainBeforeSetup ==
    (call.op = "explain_prediction" /\ explainer.background_data = <<>>) =>
        ret = Return([error |-> "Explainer not setup"])

\* an explanation was asked of an explainer that was never set up
C9_Witness ==
    /\ call.op = "explain_prediction"
    /\ explainer.background_data = <<>>
    /\ ret.kind = "return"

\* C10: compare_to_market(price, prices) is 'unknown' with difference 0 for
\* no prices; otherwise, with pctDiff = (price - mean) / mean * 100, it is
\* 'overpriced' exactly when pctDiff > 10, 'underpriced' exactly when
\* pctDiff < -10 and 'fair' otherwise.
C10_MarketVerdict ==
    call.op = "compare_to_market" =>
        LET p == call.arg[1]
            sp == call.arg[2]
            n == Len(sp)
            total == SeqSum(sp)
            \* pctDiff = num / den, den > 0
            num == 100 * (n * p[1] - total * p[2])
            den == total * p[2]
            r == ret.value
        IN  IF sp = <<>>
            THEN r.status = "unknown" /\ r.difference_pct = RInt(0)
            ELSE /\ r.difference_pct = Rat(num, den)
                 /\ r.status = "overpriced" <=> num > 10 * den
                 /\ r.status = "underpriced" <=> num < -10 * den
                 /\ r.status = "fair" <=> (num <= 10 * den /\ num >= -10 * den)
                 /\ r.status \in {"overpriced", "underpriced", "fair"}

\* a price exactly 10 percent above the mean was found fair
C10_Witness ==
    /\ call.op = "compare_to_market"
    /\ call.arg[2] # <<>>
    /\ ret.value.status = "fair"
    /\ ret.value.difference_pct = RInt(10)

\* the row of the training frame that a result names, and its distance to
\* the query of the call
ResultRow(r) == [j \in 1..Len(X_train.columns) |-> r.features[X_train.columns[j]]]
ResultDist(r) ==
    LET sv == ToSeq([j \in 1..Len(X_train.columns) |-> ScaleVar(X_train, j)],
                    Len(X_train.columns))
    IN  RSqrt(SqDist(sv, ResultRow(r), call.arg[1].rows[1]))

\* C11: every similarity_score returned by get_similar_properties is
\* 1/(1+d) for the distance d >= 0 of the row it names: it lies in (0,1],
\* it is 1 only when d = 0, and of two results the one at the strictly
\* larger distance has the strictly smaller score.
C11_SimilarityScoreRange ==
    (call.op = "get_similar_properties" /\ ret.kind = "return") =>
        \A i \in 1..Len(ret.value) :
            LET s == ret.value[i].similarity_score
                d == ResultDist(ret.value[i])
            IN  /\ RLe(RInt(0), d)
                /\ RMul(s, RAdd(RInt(1), d)) = RInt(1)
                /\ RLt(RInt(0), s) /\ RLe(s, RInt(1))
                /\ (s = RInt(1)) <=> (d = RInt(0))
                /\ \A j \in 1..Len(ret.value) :
                       RLt(d, ResultDist(ret.value[j])) =>
                           RLt(ret.value[j].similarity_score, s)

\* two neighbours were returned, the first at distance 0 and the second
\* farther than one standard unit
C11_Witness ==
    /\ call.op = "get_similar_properties"
    /\ ret.kind = "return"
    /\ Len(ret.value) = 2
    /\ ret.value[1].similarity_score = RInt(1)
    /\ RLt(ret.value[2].similarity_score, Rat(1, 2))

\* the first k rows in non-decreasing distance, rows at equal distance in
\* their original order
RECURSIVE RankedRows(_, _, _)
RankedRows(d, k, taken) ==
    IF k = 0 THEN <<>>
    ELSE LET best == CHOOSE i \in (1..Len(d)) \ taken :
                        \A o \in (1..Len(d)) \ taken :
                            \/ RLt(d[i], d[o])
                            \/ (d[i] = d[o] /\ i <= o)
         IN  <<best>> \o RankedRows(d, k - 1, taken \cup {best})

\* C12: get_similar_properties(X, y, x, k) returns the k training rows
\* with the smallest standardized distance to x, ranked 1, 2, ... in
\* non-decreasing distance with ties broken by original row order; a row
\* identical to x ranks first with similarity score 1, and each result
\* carries the price of the row it names.
C12_NearestInRowOrder ==
    (call.op = "get_similar_properties" /\ ret.kind = "return") =>
        LET x == call.arg[1].rows[1]
            k == call.arg[2]
            d == Distances(X_train, x)
            rows == RankedRows(d, k, {})
        IN  /\ Len(ret.value) = k
            /\ \A i \in 1..k :
                   /\ ret.value[i].rank = i
                   /\ ResultRow(ret.value[i]) = X_train.rows[rows[i]]
                   /\ ret.value[i].price = y_train[rows[i]]
            /\ (\E i \in 1..Len(X_train.rows) : X_train.rows[i] = x) =>
                   /\ ResultRow(ret.value[1]) = x
                   /\ ret.value[1].similarity_score = RInt(1)

\* the input x reduced to the schema of m: the schema's fields only, a
\* missing one taken as 0
ReduceToSchema(m, x) ==
    [f \in {m.feature_names[1][i] : i \in 1..Len(m.feature_names[1])} |->
        IF f \in DOMAIN x THEN x[f] ELSE 0]

\* C13: predict() reduces its input to the schema itself: fields not in
\* feature_names are ignored, fields are taken in schema order, and a
\* schema feature missing from the input is treated as 0 and causes no
\* failure; the result is that of the reduced input.
C13_PredictReducesToSchema ==
    (call.op = "predict" /\ model.is_trained /\ model.feature_names # <<>>) =>
        LET reduced == PredictStep(model, ReduceToSchema(model, call.arg))
        IN  reduced.kind = "return" => ret = reduced

\* C16: get_feature_importance() called before training or loading has
\* completed fails with the untrained-model error, as predict() does.
C16_UntrainedImportanceFails ==
    (call.op = "get_feature_importance" /\ ~model.is_trained) =>
        /\ ret.kind = "raise"
        /\ \A x \in Inputs : ret = PredictStep(model, x)

\* the positive floor that r2 scores are to be clipped to
R2Floor == Rat(1, 1000)

\* C19: train() gives each learner the weight r2_i divided by the sum of
\* all learners' r2, after clipping to the positive floor; with held-out r2
\* of 0.9 and 0.7 the weights are 0.5625 and 0.4375; the ensemble's
\* held-out error is that of the sum of the learners' test predictions
\* weighted by these weights.
C19_WeightsFromClippedR2 ==
    (call.op \in {"train", "train_and_save_model"} /\ ret.kind = "return") =>
        LET r2 == ret.value[1].individual_models
            clipped == [n \in LearnerNames |-> RMax(R2Floor, Rat(r2[n], 10))]
            total == RSeqSum([i \in 1..Len(LearnerOrder) |-> clipped[LearnerOrder[i]]])
        IN  /\ \A n \in LearnerNames : model.weights[n] = RDiv(clipped[n], total)
            /\ (r2["xgboost"] = 9 /\ r2["lightgbm"] = 7) =>
                   /\ model.weights["xgboost"] = Rat(5625, 10000)
                   /\ model.weights["lightgbm"] = Rat(4375, 10000)
            /\ ret.value[1].weights = model.weights
            /\ ret.value[1].ensemble_mae =
                   EnsembleMae(model.models, model.weights, X_train, y_train)

\* C20: predict() returns as point estimate the weight-blended sum of the
\* per-learner predictions, and as bounds that estimate minus and plus 1.96
\* times the population standard deviation of the unweighted per-learner
\* predictions (for two learners, half the gap between them), the lower
\* bound floored at 0.
C20_EstimateAndBounds ==
    (call.op = "predict" /\ ret.kind = "return") =>
        LET p == ret.value.model_predictions
            a == p["xgboost"]
            b == p["lightgbm"]
            est == RAdd(RMul(model.weights["xgboost"], RInt(a)),
                        RMul(model.weights["lightgbm"], RInt(b)))
            dispersion == Rat(Abs(a - b), 2)
            margin == RMul(Rat(196, 100), dispersion)
            low == RSub(est, margin)
        IN  /\ DOMAIN p = LearnerNames
            /\ ret.value.predicted_price = est
            /\ ret.value.price_upper = RAdd(est, margin)
            /\ ret.value.price_lower = IF RLt(low, RInt(0)) THEN RInt(0) ELSE low

\* two learners predict 4 and 6: the dispersion is 1 and the bounds are the
\* estimate minus and plus 1.96, the lower one above 0
C20_Witness ==
    /\ call.op = "predict"
    /\ ret.kind = "return"
    /\ ret.value.model_predictions = [xgboost |-> 4, lightgbm |-> 6]
    /\ RLt(RInt(0), ret.value.price_lower)
    /\ RSub(ret.value.price_upper, ret.value.predicted_price) = Rat(196, 100)
    /\ RSub(ret.value.predicted_price, ret.value.price_lower) = Rat(196, 100)

\* C14: for any city and any sequence of get_city_crime_score calls,
\* whatever the collaborator does, every call returns without raising and
\* its crime_index and safety_score are numbers, never null.
C14_CrimeScoreWellFormed ==
    call.op = "get_city_crime_score" =>
        /\ ret.kind = "return"
        /\ ret.value.crime_index.t = "num"
        /\ ret.value.safety_score.t = "num"

LookupOps ==
    {"get_real_time_market_data", "get_live_property_listings",
     "enhance_prediction", "get_market_comparison"}

\* no part of the text s is a JSON object (a JSON array for the listings)
NoJsonIn(s, array) ==
    \A a, b \in 1..Len(s) :
        a <= b =>
            IF array THEN LoadsArray(SubSeq(s, a, b)) = <<>>
            ELSE LoadsObject(SubSeq(s, a, b)) = <<>>

\* the static fallback of the lookup that was called
FallbackOfCall ==
    CASE call.op = "get_real_time_market_data" -> FallbackMarketData(call.arg.city)
      [] call.op = "get_live_property_listings" ->
             FallbackListings(call.arg.city, DefaultBedrooms, DefaultBudget)
      [] call.op = "enhance_prediction" -> FallbackEnhanced(DefaultBasePrice)
      [] call.op = "get_market_comparison" ->
             FallbackComparison(call.arg.city, DefaultPredictedPrice)

\* C15: each market lookup returns its static fallback, and does not
\* raise, whenever the collaborator call has no API key, times out, raises,
\* answers with a status other than 200, or answers with a text in which
\* no JSON can be parsed.
C15_LookupFallsBack ==
    (/\ call.op \in LookupOps
     /\ \/ call.arg.reply.kind \in FailureKinds
        \/ NoJsonIn(call.arg.reply.text, call.op = "get_live_property_listings")) =>
        ret = Return(FallbackOfCall)

\* the market data of an unlisted city was asked for, the answer had the
\* outermost braces but was no JSON, and the default row came back
C15_Witness ==
    /\ call.op = "get_real_time_market_data"
    /\ call.arg.city = "Rampur"
    /\ call.arg.reply = TextReply(<<"{", "[", "}">>)
    /\ ret.kind = "return"
    /\ ret.value.avg_price_per_sqft = 6000
    /\ ret.value.real_time = FALSE

\* an error response: an error status, a message and no success mark
IsErrorResponse(v) ==
    /\ v.status \in {400, 500}
    /\ "error" \in DOMAIN v
    /\ "success" \notin DOMAIN v

\* C17: whenever prediction, explanation or comparison fails (the model is
\* untrained, the explainer is not configured, the request has no input),
\* the /api/predict, /api/explain, /api/compare and /api/feature-importance
\* handlers return an error response with a message and never a response
\* marked success.
C17_ErrorsAreStructured ==
    (/\ call.op \in ApiOps
     /\ \/ ~model.is_trained
        \/ call.op = "api_explain" /\ explainer.explainer = <<>>
        \/ call.op # "api_feature_importance" /\ DOMAIN call.arg = {}) =>
        /\ ret.kind = "return"
        /\ IsErrorResponse(ret.value)

PredValues(r) == [i \in 1..Len(LearnerOrder) |-> r.model_predictions[LearnerOrder[i]]]

\* C21: the confidence of predict() is 1 - dispersion/mean of the learners'
\* predictions when that mean is positive and 0.8 otherwise; it is never
\* above 1, and it is 1 exactly when the learners agree on a positive price
C21_Confidence ==
    (call.op = "predict" /\ ret.kind = "return") =>
        LET vals == PredValues(ret.value)
            mean == Mean(vals)
            c == ret.value.confidence
        IN  /\ RLt(RInt(0), mean) => c = RSub(RInt(1), RDiv(Std(vals), mean))
            /\ ~RLt(RInt(0), mean) => c = Rat(8, 10)
            /\ RLe(c, RInt(1))
            /\ (c = RInt(1)) <=>
                   /\ \A i \in 1..Len(vals) : vals[i] = vals[1]
                   /\ vals[1] > 0

\* learners that agree on a price that is not positive: the confidence is 0.8
C21_Witness ==
    /\ call.op = "predict"
    /\ ret.kind = "return"
    /\ \A i \in 1..Len(LearnerOrder) : PredValues(ret.value)[i] = PredValues(ret.value)[1]
    /\ PredValues(ret.value)[1] <= 0
    /\ ret.value.confidence = Rat(8, 10)

\* the absolute contributions of all features of an explanation, by name
AbsContributions(sv) ==
    [i \in 1..Len(FactorNames) |->
        IF FactorNames[i] \in DOMAIN sv THEN Abs(sv[FactorNames[i]]) ELSE 0]

\* C22: top_factors holds the min(5, number of features) features of largest
\* absolute contribution in non-increasing order of it; impact_percentage is
\* the share of the feature's absolute contribution in the total over all
\* features (0 when the total is 0), so the shares add up to at most 100;
\* direction is increases for a positive and decreases for a negative one
C22_TopFactors ==
    (call.op = "explain_prediction" /\ ret.kind = "return") =>
        LET sv == ret.value.shap_values
            tf == ret.value.top_factors
            n == Cardinality(DOMAIN sv)
            total == SeqSum(AbsContributions(sv))
            named == {tf[k].feature : k \in 1..Len(tf)}
        IN  /\ Len(tf) = IF n < 5 THEN n ELSE 5
            /\ Cardinality(named) = Len(tf)
            /\ named \subseteq DOMAIN sv
            /\ \A k \in 1..Len(tf) :
                   /\ tf[k].impact = sv[tf[k].feature]
                   /\ k < Len(tf) => Abs(tf[k].impact) >= Abs(tf[k + 1].impact)
                   /\ \A f \in DOMAIN sv \ named : Abs(sv[f]) <= Abs(tf[k].impact)
                   /\ tf[k].impact_percentage =
                          IF total = 0 THEN RInt(0)
                          ELSE Rat(Abs(tf[k].impact) * 100, total)
                   /\ tf[k].impact > 0 => tf[k].direction = "increases"
                   /\ tf[k].impact < 0 => tf[k].direction = "decreases"
            /\ RLe(RSeqSum([k \in 1..Len(tf) |-> tf[k].impact_percentage]), RInt(100))

\* six features: five are reported, a negative one leads, and the one left
\* out has a share of its own, so the reported shares stay below 100
C22_Witness ==
    /\ call.op = "explain_prediction"
    /\ ret.kind = "return"
    /\ Cardinality(DOMAIN ret.value.shap_values) = 6
    /\ Len(ret.value.top_factors) = 5
    /\ ret.value.top_factors[1].impact < 0
    /\ ret.value.top_factors[1].direction = "decreases"
    /\ ret.value.top_factors[2].direction = "increases"
    /\ \E f \in DOMAIN ret.value.shap_values :
           /\ \A k \in 1..5 : ret.value.top_factors[k].feature # f
           /\ ret.value.shap_values[f] # 0

\* the feature vector the handler of the call op hands to the model for the
\* request body data
HandlerVector(op, data) ==
    IF op = "api_compare" THEN SchemaRow(model, MedianFilled(model, X_train, data))
    ELSE SchemaRow(model, ZeroFilled(model, data))

\* C23: the predict, explain and compare handlers reduce a request body to
\* the same schema-ordered feature vector: extra fields dropped, every
\* schema feature the body lacks set to 0
C23_SameFeatureVector ==
    (/\ call.op \in {"api_predict", "api_explain", "api_compare"}
     /\ DOMAIN call.arg # {}
     /\ model.feature_names # <<>>) =>
        LET names == model.feature_names[1]
        IN  HandlerVector(call.op, call.arg) =
                [i \in 1..Len(names) |->
                    IF names[i] \in DOMAIN call.arg THEN call.arg[names[i]] ELSE 0]

\* C24: get_feature_importance() on a model that train() produced succeeds
\* and returns one importance map per learner of the ensemble plus their
\* average; it depends on no learner name the ensemble does not contain
C24_ImportanceOfTrainedModel ==
    (call.op = "get_feature_importance" /\ model.is_trained) =>
        /\ ret.kind = "return"
        /\ DOMAIN ret.value = DOMAIN model.models \cup {"average"}

\* C25: under any interleaving of requests against one loaded model no
\* request writes state shared by the process (model, explainer with its
\* background sample, training data, caches), so a request's response is
\* the one it gets when it runs alone after the load
C25_RequestsShareNothing ==
    [][call'.op \in ApiOps =>
          /\ UNCHANGED <<model, explainer, X_train, y_train, crime_cache>>
          /\ \E reply \in RepliesFor(RequestCity(call'.arg)) :
                 ret' = PredictHandler(model, EmptyDict, call'.arg, reply).ret]_vars

\* C26: once setup(X_train) has been called on an explainer, whatever model
\* it wraps, background_data holds min(len(X_train), n_samples) rows of
\* X_train (all of them when they fit the cap) and explain_prediction
\* returns an attribution result, not the not-configured error
C26_SetupConfigures ==
    explainer.background_data # <<>> =>
        LET bg == explainer.background_data[1]
            n == Len(X_train.rows)
        IN  /\ Len(bg.rows) = IF n < BackgroundCap THEN n ELSE BackgroundCap
            /\ \A i \in 1..Len(bg.rows) : \E j \in 1..n : bg.rows[i] = X_train.rows[j]
            /\ n <= BackgroundCap => bg = X_train
            /\ call.op = "explain_prediction" =>
                   ret # Return([error |-> "Explainer not setup"])

\* C27: a load() that fails leaves the model exactly as it was before the
\* call: no field is overwritten by the fields the file did hold
C27_FailedLoadChangesNothing ==
    [][(call'.op = "load" /\ ret'.kind = "raise") => model' = model]_vars

\* the city a get_city_crime_score call is about, from the name it was given
CityOfCall(c) == IF c.arg[1] = "" THEN "Default" ELSE Title(c.arg[1])

\* a call for a city of the hardcoded index leaves the cache as it is
ListedLeavesCache ==
    CityOfCall(call') \in DOMAIN CITY_CRIME_INDEX => crime_cache' = crime_cache

\* a call that fell back to the default left no entry for its city
RejectedLeavesNoEntry ==
    (/\ CityOfCall(call') \notin DOMAIN CITY_CRIME_INDEX
     /\ CityOfCall(call') \notin DOMAIN crime_cache
     /\ "note" \in DOMAIN ret'.value) =>
        CityOfCall(call') \notin DOMAIN crime_cache'

\* a call for a city whose successful live lookup is cached returns what
\* that lookup returned: the entry's crime_index, and its safety_score or,
\* without one, 10 - crime_index
CachedRepeatsFirst ==
    LET city == CityOfCall(call') IN
    (/\ city \notin DOMAIN CITY_CRIME_INDEX
     /\ city \in DOMAIN crime_cache
     /\ crime_cache[city]["crime_index"].t = "num"
     /\ Get(crime_cache[city], "safety_score", JNum(RInt(0))).t = "num") =>
        /\ ret'.kind = "return"
        /\ ret'.value.crime_index = crime_cache[city]["crime_index"]
        /\ ret'.value.safety_score =
               Get(crime_cache[city], "safety_score",
                   JNum(RSub(RInt(10), crime_cache[city]["crime_index"].v)))

\* C28: for a city outside the hardcoded index, once a live lookup has
\* succeeded and been cached every later call returns the crime_index and
\* safety_score of the first; a lookup whose result was rejected leaves no
\* entry in the cache; cities of the hardcoded index never touch the cache
C28_CrimeCacheConsistent ==
    [][call'.op = "get_city_crime_score" =>
          /\ ListedLeavesCache
          /\ RejectedLeavesNoEntry
          /\ CachedRepeatsFirst]_vars

====
